---- MODULE Spec2Model ----
(***************************************************************************)
(* namuplot.themes: the theme registry built from style.json, and the      *)
(* operations that look a theme up, apply it to matplotlib's global        *)
(* rcParams (use, iter_use), apply it for the duration of a with-block     *)
(* (context) or hand out a copy of its rcParams (to_rcparams).             *)
(*                                                                         *)
(* Python objects are cells of a heap (a sequence of mappings, an object's *)
(* identity being its index), so that two references to one object and two *)
(* equal objects are different things.  The caller's own statements (a     *)
(* write to mpl.rcParams, a write through an object a call returned) are   *)
(* actions of the model, since the claims quantify over them.              *)
(***************************************************************************)
EXTENDS Integers, Sequences, FiniteSets, TLC

\* ------------------------------------------------------------------ bounds
\* Caller writes (to rcParams or through a returned object) in one run.
MaxWrites == 2
\* Objects handed out by to_rcparams in one run.
MaxCopies == 1
\* Depth of nested with-blocks.
MaxDepth == 2
\* Length of the names argument of iter_use.
MaxNames == 2

\* ------------------------------------------------------------------ inputs
\* The semantic colour roles of a palette, in the order _build_rcparams
\* reads them.
RoleKeys == <<"text", "background", "gray", "a", "b", "c", "d", "e">>

LightPalette ==
    [text |-> "#222222", background |-> "#ffffff", gray |-> "#999999",
     a |-> "#e69f00", b |-> "#56b4e9", c |-> "#009e73", d |-> "#f0e442",
     e |-> "#0072b2"]

DarkPalette ==
    [text |-> "#eeeeee", background |-> "#111111", gray |-> "#666666",
     a |-> "#ffb000", b |-> "#648fff", c |-> "#dc267f", d |-> "#fe6100",
     e |-> "#785ef0"]

\* Palettes that lack a required role: the last one read, and the first.
DarkPaletteNoE ==
    [text |-> "#eeeeee", background |-> "#111111", gray |-> "#666666",
     a |-> "#ffb000", b |-> "#648fff", c |-> "#dc267f", d |-> "#fe6100"]

LightPaletteNoText ==
    [background |-> "#ffffff", gray |-> "#999999",
     a |-> "#e69f00", b |-> "#56b4e9", c |-> "#009e73", d |-> "#f0e442",
     e |-> "#0072b2"]

\* The contents style.json may have: an ordered mapping name -> palette.
StyleFiles ==
    { << [name |-> "light", colors |-> LightPalette],
         [name |-> "dark",  colors |-> DarkPalette] >>,
      << [name |-> "light", colors |-> LightPalette],
         [name |-> "dark",  colors |-> DarkPaletteNoE] >>,
      << [name |-> "light", colors |-> LightPaletteNoText],
         [name |-> "dark",  colors |-> DarkPalette] >> }

\* The names a caller passes: the two themes and one that is no theme.
CallNames == {"light", "dark", "unknown-theme"}

\* Names only get is called with here: one with a backslash, one with an
\* apostrophe, one with both kinds of quote.
OddNames == {"a\\b", "it's", "'\"'"}

\* The code points of each name, for Python's ordering and repr of str.
NameChars ==
    ( "light" :> <<108, 105, 103, 104, 116>> ) @@
    ( "dark"  :> <<100, 97, 114, 107>> ) @@
    ( "unknown-theme" :>
        <<117, 110, 107, 110, 111, 119, 110, 45, 116, 104, 101, 109, 101>> ) @@
    ( "a\\b" :> <<97, 92, 98>> ) @@
    ( "it's" :> <<105, 116, 39, 115>> ) @@
    ( "'\"'" :> <<39, 34, 39>> )

\* The colours and keys a caller writes.
CallerColors == {"#123456"}
GlobalWriteKeys == {"figure.facecolor", "lines.color"}
RcWriteKeys == {"figure.facecolor"}
ColorsWriteKeys == {"background"}

\* matplotlib's rcParams before any theme is applied: the keys a theme
\* sets, and two it does not.
MplDefaults ==
    ( "figure.facecolor" :> "white" ) @@
    ( "figure.edgecolor" :> "white" ) @@
    ( "savefig.facecolor" :> "auto" ) @@
    ( "savefig.edgecolor" :> "auto" ) @@
    ( "axes.facecolor" :> "white" ) @@
    ( "axes.edgecolor" :> "black" ) @@
    ( "axes.labelcolor" :> "black" ) @@
    ( "axes.titlecolor" :> "auto" ) @@
    ( "text.color" :> "black" ) @@
    ( "xtick.color" :> "black" ) @@
    ( "ytick.color" :> "black" ) @@
    ( "axes.grid" :> FALSE ) @@
    ( "grid.color" :> "#b0b0b0" ) @@
    ( "grid.alpha" :> "1.0" ) @@
    ( "grid.linestyle" :> "-" ) @@
    ( "grid.linewidth" :> "0.8" ) @@
    ( "axes.spines.top" :> TRUE ) @@
    ( "axes.spines.right" :> TRUE ) @@
    ( "lines.linewidth" :> "1.5" ) @@
    ( "lines.markersize" :> 6 ) @@
    ( "axes.prop_cycle" :> [color |-> <<"#1f77b4", "#ff7f0e", "#2ca02c",
                                        "#d62728", "#9467bd">>] ) @@
    ( "font.family" :> "sans-serif" ) @@
    ( "font.sans-serif" :> <<"DejaVu Sans">> ) @@
    ( "legend.frameon" :> TRUE ) @@
    ( "axes.unicode_minus" :> TRUE ) @@
    ( "axes.formatter.useoffset" :> TRUE ) @@
    ( "axes.formatter.limits" :> <<-5, 6>> ) @@
    ( "errorbar.capsize" :> "0.0" ) @@
    ( "patch.edgecolor" :> "black" ) @@
    ( "boxplot.flierprops.markeredgecolor" :> "black" ) @@
    ( "lines.color" :> "C0" ) @@
    ( "figure.dpi" :> 100 )

\* ------------------------------------------------------------------- state
VARIABLES
    pc,         \* "import": before load; "ready": _DEFAULT_THEMES is bound;
                \* "failed": the import raised
    configs,    \* what _read_default_style returned
    registry,   \* _DEFAULT_THEMES: Theme records in insertion order
    heap,       \* the palette and RcParams objects, by identity
    rcParams,   \* mpl.rcParams
    ctxStack,   \* the with-blocks entered and not yet left, innermost last
    gen,        \* the generator iter_use returned last
    copies,     \* the identities to_rcparams returned, oldest first
    writes,     \* caller writes so far
    lastCall    \* the call that was made last, and what it returned or raised

vars == <<pc, configs, registry, heap, rcParams, ctxStack, gen, copies,
          writes, lastCall>>

\* ---------------------------------------------------------------- helpers
Range(s) == {s[i] : i \in DOMAIN s}

\* dict.update / RcParams.update: every key of src is written into target,
\* the other keys of target stay.
RcUpdate(target, src) ==
    [k \in DOMAIN target \cup DOMAIN src |->
        IF k \in DOMAIN src THEN src[k] ELSE target[k]]

\* obj[k] = v
SetItem(obj, k, v) == RcUpdate(obj, k :> v)

\* Python's < on str: lexicographic on code points.
RECURSIVE LexLess(_, _)
LexLess(s, t) ==
    IF t = <<>> THEN FALSE
    ELSE IF s = <<>> THEN TRUE
    ELSE IF s[1] # t[1] THEN s[1] < t[1]
    ELSE LexLess(Tail(s), Tail(t))

StrLess(x, y) == LexLess(NameChars[x], NameChars[y])

\* sorted(): insertion of each element of the iterable into an ordered list.
RECURSIVE InsertSorted(_, _)
InsertSorted(x, s) ==
    IF s = <<>> THEN <<x>>
    ELSE IF StrLess(x, s[1]) THEN <<x>> \o s
    ELSE <<s[1]>> \o InsertSorted(x, Tail(s))

RECURSIVE SortedFrom(_, _)
SortedFrom(s, acc) ==
    IF s = <<>> THEN acc ELSE SortedFrom(Tail(s), InsertSorted(s[1], acc))

\* repr of a str, over printable ASCII and the newline, carriage return
\* and tab: the quote is ' unless the string holds a ' and no "; a
\* backslash, the chosen quote and the three control characters are
\* written as backslash escapes, every other character as itself.
ReprQuote(s) ==
    IF (\E i \in DOMAIN s : s[i] = 39) /\ ~(\E i \in DOMAIN s : s[i] = 34)
    THEN 34 ELSE 39

ReprChar(c, q) ==
    IF c = 92 THEN <<92, 92>>
    ELSE IF c = q THEN <<92, q>>
    ELSE IF c = 10 THEN <<92, 110>>
    ELSE IF c = 13 THEN <<92, 114>>
    ELSE IF c = 9 THEN <<92, 116>>
    ELSE <<c>>

RECURSIVE ReprBody(_, _)
ReprBody(s, q) ==
    IF s = <<>> THEN <<>> ELSE ReprChar(s[1], q) \o ReprBody(Tail(s), q)

\* A plausible slip: the name goes into the message as it is, "{name}".
ReprStrPlain(s) == s

\* f"{name!r}"
ReprStr(s) == <<ReprQuote(s)>> \o ReprBody(s, ReprQuote(s)) \o <<ReprQuote(s)>>

\* A plausible slip: the names in registry order, unsorted.
UnsortedNames(names) == names

\* sorted(_DEFAULT_THEMES)
SortedNames(names) == SortedFrom(names, <<>>)

\* ------------------------------------------------------- _build_rcparams
\* The first role, in the order the code reads them, that colors lacks
\* (0: none).  colors[k] on a missing k raises KeyError(k).
RECURSIVE FirstMissing(_, _)
FirstMissing(colors, i) ==
    IF i > Len(RoleKeys) THEN 0
    ELSE IF RoleKeys[i] \notin DOMAIN colors THEN i
    ELSE FirstMissing(colors, i + 1)

\* A plausible slip: the figure's edge takes the text colour too.
BuildRcMapFigureEdgeText(colors) ==
    ( "figure.facecolor" :> colors["background"] ) @@
    ( "figure.edgecolor" :> colors["text"] ) @@
    ( "savefig.facecolor" :> colors["background"] ) @@
    ( "savefig.edgecolor" :> colors["background"] ) @@
    ( "axes.facecolor" :> colors["background"] ) @@
    ( "axes.edgecolor" :> colors["text"] ) @@
    ( "axes.labelcolor" :> colors["text"] ) @@
    ( "axes.titlecolor" :> colors["text"] ) @@
    ( "text.color" :> colors["text"] ) @@
    ( "xtick.color" :> colors["text"] ) @@
    ( "ytick.color" :> colors["text"] ) @@
    ( "axes.grid" :> TRUE ) @@
    ( "grid.color" :> colors["text"] ) @@
    ( "grid.alpha" :> "0.30" ) @@
    ( "grid.linestyle" :> "-" ) @@
    ( "grid.linewidth" :> "0.8" ) @@
    ( "axes.spines.top" :> FALSE ) @@
    ( "axes.spines.right" :> FALSE ) @@
    ( "lines.linewidth" :> "2.0" ) @@
    ( "lines.markersize" :> 6 ) @@
    ( "axes.prop_cycle" :> [color |-> <<colors["a"], colors["b"], colors["c"],
                                        colors["d"], colors["e"]>>] ) @@
    ( "font.family" :> "sans-serif" ) @@
    ( "font.sans-serif" :> <<"NanumBarunGothicOTF", "NanumBarunGothic",
                             "NanumGothic", "Apple SD Gothic Neo",
                             "Malgun Gothic", "DejaVu Sans">> ) @@
    ( "legend.frameon" :> FALSE ) @@
    ( "axes.unicode_minus" :> FALSE ) @@
    ( "axes.formatter.useoffset" :> FALSE ) @@
    ( "axes.formatter.limits" :> <<-4, 5>> ) @@
    ( "errorbar.capsize" :> "2.0" ) @@
    ( "patch.edgecolor" :> colors["gray"] ) @@
    ( "boxplot.flierprops.markeredgecolor" :> colors["gray"] )

\* The assignments of _build_rcparams for a palette that has every role.
\* Floats are kept as their literals; the cycler as its colour list.
BuildRcMap(colors) ==
    ( "figure.facecolor" :> colors["background"] ) @@
    ( "figure.edgecolor" :> colors["background"] ) @@
    ( "savefig.facecolor" :> colors["background"] ) @@
    ( "savefig.edgecolor" :> colors["background"] ) @@
    ( "axes.facecolor" :> colors["background"] ) @@
    ( "axes.edgecolor" :> colors["text"] ) @@
    ( "axes.labelcolor" :> colors["text"] ) @@
    ( "axes.titlecolor" :> colors["text"] ) @@
    ( "text.color" :> colors["text"] ) @@
    ( "xtick.color" :> colors["text"] ) @@
    ( "ytick.color" :> colors["text"] ) @@
    ( "axes.grid" :> TRUE ) @@
    ( "grid.color" :> colors["text"] ) @@
    ( "grid.alpha" :> "0.30" ) @@
    ( "grid.linestyle" :> "-" ) @@
    ( "grid.linewidth" :> "0.8" ) @@
    ( "axes.spines.top" :> FALSE ) @@
    ( "axes.spines.right" :> FALSE ) @@
    ( "lines.linewidth" :> "2.0" ) @@
    ( "lines.markersize" :> 6 ) @@
    ( "axes.prop_cycle" :> [color |-> <<colors["a"], colors["b"], colors["c"],
                                        colors["d"], colors["e"]>>] ) @@
    ( "font.family" :> "sans-serif" ) @@
    ( "font.sans-serif" :> <<"NanumBarunGothicOTF", "NanumBarunGothic",
                             "NanumGothic", "Apple SD Gothic Neo",
                             "Malgun Gothic", "DejaVu Sans">> ) @@
    ( "legend.frameon" :> FALSE ) @@
    ( "axes.unicode_minus" :> FALSE ) @@
    ( "axes.formatter.useoffset" :> FALSE ) @@
    ( "axes.formatter.limits" :> <<-4, 5>> ) @@
    ( "errorbar.capsize" :> "2.0" ) @@
    ( "patch.edgecolor" :> colors["gray"] ) @@
    ( "boxplot.flierprops.markeredgecolor" :> colors["gray"] )

\* _build_rcparams(colors): the RcParams, or the KeyError of the first
\* missing role.
BuildRcparams(colors) ==
    LET m == FirstMissing(colors, 1)
    IN  IF m # 0
        THEN [ok |-> FALSE, error |-> "KeyError", key |-> RoleKeys[m]]
        ELSE [ok |-> TRUE, rc |-> BuildRcMap(colors)]

\* ------------------------------------------------------------ load_themes
\* The loop of load_themes from entry i on: themes is the dict built so
\* far, objs the objects that exist.  A Theme holds its palette and its
\* RcParams by reference; an exception leaves the loop, and the function,
\* without a return value.
RECURSIVE LoadFrom(_, _, _, _)
LoadFrom(cfgs, i, themes, objs) ==
    IF i > Len(cfgs) THEN [ok |-> TRUE, themes |-> themes, heap |-> objs]
    ELSE LET built == BuildRcparams(cfgs[i].colors)
         IN  IF ~built.ok
             THEN [ok |-> FALSE, error |-> built.error, key |-> built.key]
             ELSE LoadFrom(cfgs, i + 1,
                           Append(themes,
                                  [name |-> cfgs[i].name,
                                   colors |-> Len(objs) + 1,
                                   rc |-> Len(objs) + 2]),
                           objs \o <<cfgs[i].colors, built.rc>>)

\* A plausible slip: a defective palette ends the loop and what was built
\* before it is returned.
RECURSIVE LoadFromPartial(_, _, _, _)
LoadFromPartial(cfgs, i, themes, objs) ==
    IF i > Len(cfgs) THEN [ok |-> TRUE, themes |-> themes, heap |-> objs]
    ELSE LET built == BuildRcparams(cfgs[i].colors)
         IN  IF ~built.ok
             THEN [ok |-> TRUE, themes |-> themes, heap |-> objs]
             ELSE LoadFromPartial(cfgs, i + 1,
                           Append(themes,
                                  [name |-> cfgs[i].name,
                                   colors |-> Len(objs) + 1,
                                   rc |-> Len(objs) + 2]),
                           objs \o <<cfgs[i].colors, built.rc>>)

LoadThemesPartial(cfgs) == LoadFromPartial(cfgs, 1, <<>>, <<>>)

\* load_themes(configs)
LoadThemes(cfgs) == LoadFrom(cfgs, 1, <<>>, <<>>)

\* -------------------------------------------------------- registry reads
\* _DEFAULT_THEMES.keys(), in insertion order
Available == [i \in DOMAIN registry |-> registry[i].name]

Registered(name) == \E i \in DOMAIN registry : registry[i].name = name

\* _DEFAULT_THEMES[name]
ThemeOf(name) ==
    registry[CHOOSE i \in DOMAIN registry : registry[i].name = name]

\* What get(name) returns or raises.  The message is kept as its parts:
\* the repr of the name, as code points, and the sorted list that follows
\* "Available: ".
GetResult(name) ==
    IF Registered(name)
    THEN [ok |-> TRUE, theme |-> ThemeOf(name)]
    ELSE [ok |-> FALSE, error |-> "KeyError",
          msg |-> [head |-> "Unknown theme: ",
                   requested |-> ReprStr(NameChars[name]),
                   mid |-> ". Available: ",
                   available |-> SortedNames(Available)]]

NoCall == [op |-> "none"]
NoGen == [status |-> "none", given |-> FALSE, names |-> <<>>, k |-> 0,
          applied |-> <<>>]

\* ------------------------------------------------------------------- Init
Init ==
    /\ pc = "import"
    /\ configs \in StyleFiles
    /\ registry = <<>>
    /\ heap = <<>>
    /\ rcParams = MplDefaults
    /\ ctxStack = <<>>
    /\ gen = NoGen
    /\ copies = <<>>
    /\ writes = 0
    /\ lastCall = NoCall

\* Module import, line 107: _DEFAULT_THEMES = load_themes(...).  When
\* load_themes raises, the import raises and the name is never bound.
Load ==
    /\ pc = "import"
    /\ LET r == LoadThemes(configs)
       IN  IF r.ok
           THEN /\ pc' = "ready"
                /\ registry' = r.themes
                /\ heap' = r.heap
                /\ lastCall' = [op |-> "load", ok |-> TRUE]
           ELSE /\ pc' = "failed"
                /\ registry' = <<>>
                /\ heap' = <<>>
                /\ lastCall' = [op |-> "load", ok |-> FALSE,
                                error |-> r.error, key |-> r.key]
    /\ UNCHANGED <<configs, rcParams, ctxStack, gen, copies, writes>>

\* --------------------------------------------------------------- available
AvailableCall ==
    /\ pc = "ready"
    /\ lastCall' = [op |-> "available", ok |-> TRUE, value |-> Available]
    /\ UNCHANGED <<pc, configs, registry, heap, rcParams, ctxStack, gen,
                   copies, writes>>

\* --------------------------------------------------------------------- get
Get(name) ==
    /\ pc = "ready"
    /\ lastCall' = [op |-> "get", name |-> name, res |-> GetResult(name)]
    /\ UNCHANGED <<pc, configs, registry, heap, rcParams, ctxStack, gen,
                   copies, writes>>

\* --------------------------------------------------------------------- use
\* A plausible slip: an unknown name falls back to the first theme
\* instead of raising.
UseOnFallback(name, g) ==
    LET r == GetResult(name)
        t == IF r.ok THEN r.theme ELSE registry[1]
    IN  [res |-> [ok |-> TRUE, theme |-> t], rc |-> RcUpdate(g, heap[t.rc])]

\* use(name) on the global configuration g: what it returns or raises, and
\* the global configuration it leaves.  get raises before the update.
UseOn(name, g) ==
    LET r == GetResult(name)
    IN  IF r.ok
        THEN [res |-> r, rc |-> RcUpdate(g, heap[r.theme.rc])]
        ELSE [res |-> r, rc |-> g]

Use(name) ==
    /\ pc = "ready"
    /\ LET u == UseOn(name, rcParams)
       IN  /\ rcParams' = u.rc
           /\ lastCall' = [op |-> "use", name |-> name, res |-> u.res]
    /\ UNCHANGED <<pc, configs, registry, heap, ctxStack, gen, copies,
                   writes>>

\* ---------------------------------------------------------------- iter_use
\* The sequences a caller passes as names.
NameSeqs == UNION {[1..n -> CallNames] : n \in 0..MaxNames}

\* A plausible slip: the function is no generator and applies every theme
\* when it is called.
RECURSIVE ApplyAll(_, _, _)
ApplyAll(names, i, g) ==
    IF i > Len(names) \/ ~Registered(names[i]) THEN g
    ELSE ApplyAll(names, i + 1, UseOn(names[i], g).rc)

IterUseEager(given, names, g) ==
    [gen |-> [status |-> "created", given |-> given, names |-> names,
              k |-> 0, applied |-> <<>>],
     rc |-> ApplyAll(IF given THEN names ELSE Available, 1, g)]

\* iter_use(names): a generator function, so the call runs none of its
\* body.  given is FALSE for names=None.
IterUseOn(given, names, g) ==
    [gen |-> [status |-> "created", given |-> given, names |-> names,
              k |-> 0, applied |-> <<>>],
     rc |-> g]

IterUse(given, names) ==
    /\ pc = "ready"
    /\ LET r == IterUseOn(given, names, rcParams)
       IN  /\ gen' = r.gen
           /\ rcParams' = r.rc
    /\ lastCall' = [op |-> "iter_use", given |-> given, names |-> names]
    /\ UNCHANGED <<pc, configs, registry, heap, ctxStack, copies, writes>>

\* The iterable the loop runs over: names, or available() for None.
IterNames(g) == IF g.given THEN g.names ELSE Available

\* next() on the generator: the loop body for the next name, up to its
\* yield; or the KeyError of use, which ends the generator; or
\* StopIteration at the end of the loop and on a generator that has ended.
IterNext ==
    /\ pc = "ready"
    /\ gen.status # "none"
    /\ IF gen.status \in {"done", "raised"} \/ gen.k >= Len(IterNames(gen))
       THEN /\ gen' = [gen EXCEPT !.status =
                          IF @ = "raised" THEN "raised" ELSE "done"]
            /\ rcParams' = rcParams
            /\ lastCall' = [op |-> "next", kind |-> "stop", k |-> gen.k]
       ELSE LET name == IterNames(gen)[gen.k + 1]
                u == UseOn(name, rcParams)
            IN  /\ rcParams' = u.rc
                /\ IF u.res.ok
                   THEN /\ gen' = [gen EXCEPT !.status = "suspended",
                                              !.k = @ + 1,
                                              !.applied = Append(@, name)]
                        /\ lastCall' = [op |-> "next", kind |-> "yield",
                                        k |-> gen.k + 1,
                                        pair |-> <<name, u.res.theme>>]
                   ELSE /\ gen' = [gen EXCEPT !.status = "raised"]
                        /\ lastCall' = [op |-> "next", kind |-> "raise",
                                        k |-> gen.k + 1, name |-> name,
                                        res |-> u.res]
    /\ UNCHANGED <<pc, configs, registry, heap, ctxStack, copies, writes>>

\* ----------------------------------------------------------------- context
\* mpl.rc_context: a copy of rcParams is taken on entry, rc is applied,
\* and on exit, in a finally clause, the copy is written back.

\* A plausible slip: only the keys the theme set are written back.
RcContextRestoreThemeKeys(cur, frame) ==
    RcUpdate(cur, [k \in DOMAIN heap[ThemeOf(frame.name).rc] |-> frame.orig[k]])

RcContextRestore(cur, frame) == RcUpdate(cur, frame.orig)

\* A plausible slip: one saved slot instead of one per scope, so that
\* every exit writes back what the outermost entry saved.
RcContextFrameOutermost(stack) == stack[1]

\* The scope an exit leaves: the innermost.
RcContextFrame(stack) == stack[Len(stack)]

\* Entry of `with context(name):`.  get(name) is evaluated before
\* rc_context is entered, so an unknown name raises with nothing saved or
\* applied and the body does not run.  entryG records the configuration at
\* entry for the properties; the code reads orig.
ContextEnter(name) ==
    /\ pc = "ready"
    /\ LET r == GetResult(name)
       IN  IF r.ok
           THEN /\ Len(ctxStack) < MaxDepth
                /\ ctxStack' = Append(ctxStack,
                                      [orig |-> rcParams, name |-> name,
                                       entryG |-> rcParams])
                /\ rcParams' = RcUpdate(rcParams, heap[r.theme.rc])
                /\ lastCall' = [op |-> "context.enter", name |-> name,
                                res |-> r]
           ELSE /\ UNCHANGED <<ctxStack, rcParams>>
                /\ lastCall' = [op |-> "context.enter", name |-> name,
                                res |-> r]
    /\ UNCHANGED <<pc, configs, registry, heap, gen, copies, writes>>

\* The with-block is left, by its body ending (raised = FALSE) or by an
\* exception of its body (raised = TRUE), which propagates after the
\* restore.  atExit records the configuration the body left.
ContextExit(raised) ==
    /\ pc = "ready"
    /\ ctxStack # <<>>
    /\ LET frame == RcContextFrame(ctxStack)
       IN  /\ rcParams' = RcContextRestore(rcParams, frame)
           /\ lastCall' = [op |-> "context.exit", raised |-> raised,
                           name |-> ctxStack[Len(ctxStack)].name,
                           depth |-> Len(ctxStack), atExit |-> rcParams]
    /\ ctxStack' = SubSeq(ctxStack, 1, Len(ctxStack) - 1)
    /\ UNCHANGED <<pc, configs, registry, heap, gen, copies, writes>>

\* ------------------------------------------------------------- to_rcparams
EmptyRc == [k \in {} |-> ""]

\* A plausible slip: the theme's own RcParams is returned.
ToRcparamsAlias(objs, theme) == [heap |-> objs, id |-> theme.rc]

\* rc = mpl.RcParams(); rc.update(theme.rc); return rc
ToRcparamsOn(objs, theme) ==
    [heap |-> Append(objs, RcUpdate(EmptyRc, objs[theme.rc])),
     id |-> Len(objs) + 1]

ToRcparams(name) ==
    /\ pc = "ready"
    /\ LET r == GetResult(name)
       IN  IF r.ok
           THEN /\ Len(copies) < MaxCopies
                /\ LET c == ToRcparamsOn(heap, r.theme)
                   IN  /\ heap' = c.heap
                       /\ copies' = Append(copies, c.id)
                       /\ lastCall' = [op |-> "to_rcparams", name |-> name,
                                       res |-> r, id |-> c.id]
           ELSE /\ UNCHANGED <<heap, copies>>
                /\ lastCall' = [op |-> "to_rcparams", name |-> name,
                                res |-> r, id |-> 0]
    /\ UNCHANGED <<pc, configs, registry, rcParams, ctxStack, gen, writes>>

\* ----------------------------------------------------- the caller's writes
\* mpl.rcParams[k] = v, anywhere, a with-block's body included
GlobalWrite(k, v) ==
    /\ pc = "ready"
    /\ writes < MaxWrites
    /\ rcParams' = SetItem(rcParams, k, v)
    /\ writes' = writes + 1
    /\ lastCall' = [op |-> "rcParams.write", key |-> k]
    /\ UNCHANGED <<pc, configs, registry, heap, ctxStack, gen, copies>>

\* obj[k] = v through a reference to a heap object
ObjWrite(objs, id, k, v) == [objs EXCEPT ![id] = SetItem(@, k, v)]

\* get(name).rc[k] = v: RcParams is a mutable mapping
ThemeRcWrite(name, k, v) ==
    /\ pc = "ready"
    /\ writes < MaxWrites
    /\ Registered(name)
    /\ heap' = ObjWrite(heap, ThemeOf(name).rc, k, v)
    /\ writes' = writes + 1
    /\ lastCall' = [op |-> "theme.rc.write", name |-> name, key |-> k]
    /\ UNCHANGED <<pc, configs, registry, rcParams, ctxStack, gen, copies>>

\* get(name).colors[k] = v: the palette is the dict json.loads built
ThemeColorsWrite(name, k, v) ==
    /\ pc = "ready"
    /\ writes < MaxWrites
    /\ Registered(name)
    /\ heap' = ObjWrite(heap, ThemeOf(name).colors, k, v)
    /\ writes' = writes + 1
    /\ lastCall' = [op |-> "theme.colors.write", name |-> name, key |-> k]
    /\ UNCHANGED <<pc, configs, registry, rcParams, ctxStack, gen, copies>>

\* get(name).<attr> = v: the dataclass is frozen, so the assignment raises
\* FrozenInstanceError and the Theme keeps its fields.
ThemeSetAttr(name, attr) ==
    /\ pc = "ready"
    /\ Registered(name)
    /\ lastCall' = [op |-> "theme.setattr", name |-> name, attr |-> attr,
                    error |-> "FrozenInstanceError"]
    /\ UNCHANGED <<pc, configs, registry, heap, rcParams, ctxStack, gen,
                   copies, writes>>

\* rc_copy[k] = v on the i-th object to_rcparams returned
CopyWrite(i, k, v) ==
    /\ pc = "ready"
    /\ writes < MaxWrites
    /\ i \in DOMAIN copies
    /\ heap' = ObjWrite(heap, copies[i], k, v)
    /\ writes' = writes + 1
    /\ lastCall' = [op |-> "copy.write", i |-> i, id |-> copies[i],
                    key |-> k]
    /\ UNCHANGED <<pc, configs, registry, rcParams, ctxStack, gen, copies>>

\* ------------------------------------------------------- specifications
\* The names that are no theme of either complete style file.
UnknownNames == {"unknown-theme"}

\* The names arguments that hold an unknown name.
FailingNameSeqs == {s \in NameSeqs : Range(s) \cap UnknownNames # {}}

AnyGet == \E name \in CallNames \cup OddNames : Get(name)
AnyUse == \E name \in CallNames : Use(name)
AnyIterUse ==
    \E given \in BOOLEAN :
      \E names \in (IF given THEN NameSeqs ELSE {<<>>}) : IterUse(given, names)
AnyFailingIterUse == \E names \in FailingNameSeqs : IterUse(TRUE, names)
AnyContextEnter == \E name \in CallNames : ContextEnter(name)
AnyContextExit == \E raised \in BOOLEAN : ContextExit(raised)
AnyToRcparams == \E name \in CallNames : ToRcparams(name)
AnyFailingToRcparams == \E name \in UnknownNames : ToRcparams(name)
AnyGlobalWrite ==
    \E k \in GlobalWriteKeys, v \in CallerColors : GlobalWrite(k, v)
AnyThemeRcWrite ==
    \E name \in CallNames, k \in RcWriteKeys, v \in CallerColors :
       ThemeRcWrite(name, k, v)
AnyThemeColorsWrite ==
    \E name \in CallNames, k \in ColorsWriteKeys, v \in CallerColors :
       ThemeColorsWrite(name, k, v)
AnyThemeSetAttr ==
    \E name \in CallNames, attr \in {"name", "colors", "rc"} :
       ThemeSetAttr(name, attr)
AnyCopyWrite ==
    \E i \in 1..MaxCopies, k \in RcWriteKeys, v \in CallerColors :
       CopyWrite(i, k, v)

\* Every operation and every caller write.
Next ==
    \/ Load
    \/ AvailableCall
    \/ AnyGet
    \/ AnyUse
    \/ AnyIterUse
    \/ IterNext
    \/ AnyContextEnter
    \/ AnyContextExit
    \/ AnyToRcparams
    \/ AnyGlobalWrite
    \/ AnyThemeRcWrite
    \/ AnyThemeColorsWrite
    \/ AnyThemeSetAttr
    \/ AnyCopyWrite

Spec == Init /\ [][Next]_vars

\* The registry: its construction, the lookups, use, to_rcparams, and the
\* writes a caller makes through what they return.
NextRegistry ==
    \/ Load
    \/ AvailableCall
    \/ AnyGet
    \/ AnyUse
    \/ AnyToRcparams
    \/ AnyGlobalWrite
    \/ AnyThemeRcWrite
    \/ AnyThemeColorsWrite
    \/ AnyThemeSetAttr
    \/ AnyCopyWrite

SpecRegistry == Init /\ [][NextRegistry]_vars

\* with-blocks, and what their bodies may do to the global configuration
\* and to the themes.
NextScope ==
    \/ Load
    \/ AnyUse
    \/ AnyContextEnter
    \/ AnyContextExit
    \/ AnyGlobalWrite
    \/ AnyThemeRcWrite

SpecScope == Init /\ [][NextScope]_vars

\* iter_use generators, interleaved with the caller's own use calls and
\* writes.
NextIter ==
    \/ Load
    \/ AnyUse
    \/ AnyIterUse
    \/ IterNext
    \/ AnyGlobalWrite
    \/ AnyThemeRcWrite

SpecIter == Init /\ [][NextIter]_vars

\* Lookups of names that are no theme, among the calls that change the
\* global configuration.
NextLookupFailure ==
    \/ Load
    \/ AnyUse
    \/ AnyFailingIterUse
    \/ IterNext
    \/ AnyContextEnter
    \/ AnyContextExit
    \/ AnyFailingToRcparams

SpecLookupFailure == Init /\ [][NextLookupFailure]_vars

\* ================================================================== claims
HasAllRoles(p) == \A i \in DOMAIN RoleKeys : RoleKeys[i] \in DOMAIN p

RegistryNames == {registry[i].name : i \in DOMAIN registry}

\* s holds exactly the elements of t, each once, in Python's str order.
IsSortedListOf(s, t) ==
    /\ Len(s) = Len(t)
    /\ Range(s) = Range(t)
    /\ \A i, j \in DOMAIN s : i < j => StrLess(s[i], s[j])

\* The global configuration g holds every entry of the mapping rc.
Reflects(g, rc) == \A k \in DOMAIN rc : g[k] = rc[k]

\* C7: registry construction is all-or-nothing.  When some palette of the
\* input lacks a required role, load_themes raises (a KeyError) and no
\* registry exists, not even one of the themes before the defective
\* palette; when every palette has every role, it returns exactly one
\* Theme per input name, in input order.
C7_LoadAllOrNothing ==
    pc # "import" =>
        IF \E i \in DOMAIN configs : ~HasAllRoles(configs[i].colors)
        THEN /\ pc = "failed"
             /\ registry = <<>>
             /\ lastCall.op = "load" /\ ~lastCall.ok
             /\ lastCall.error = "KeyError"
        ELSE /\ pc = "ready"
             /\ Len(registry) = Len(configs)
             /\ \A i \in DOMAIN configs : registry[i].name = configs[i].name

\* The load failed on the second palette, after a complete first one.
C7_Witness ==
    /\ pc = "failed"
    /\ HasAllRoles(configs[1].colors)
    /\ ~HasAllRoles(configs[2].colors)

BackgroundKeys ==
    {"figure.facecolor", "figure.edgecolor", "savefig.facecolor",
     "savefig.edgecolor", "axes.facecolor"}

\* C8 as stated: for every complete palette the translation sets
\* figure.facecolor, figure.edgecolor, savefig.facecolor,
\* savefig.edgecolor, axes.facecolor and axes.edgecolor to the palette's
\* background.
C8_AsStated ==
    (lastCall.op = "load" /\ lastCall.ok) =>
        \A i \in DOMAIN registry :
            \A k \in BackgroundKeys \cup {"axes.edgecolor"} :
                heap[registry[i].rc][k] = configs[i].colors["background"]

\* C8, amended: the translation sets figure.facecolor, figure.edgecolor,
\* savefig.facecolor, savefig.edgecolor and axes.facecolor to the
\* palette's background, and axes.edgecolor to the palette's text.
C8_BackgroundAndEdges ==
    (lastCall.op = "load" /\ lastCall.ok) =>
        \A i \in DOMAIN registry :
            /\ \A k \in BackgroundKeys :
                  heap[registry[i].rc][k] = configs[i].colors["background"]
            /\ heap[registry[i].rc]["axes.edgecolor"] =
                  configs[i].colors["text"]

\* The registry was just built from palettes whose text and background
\* differ.
C8_Witness ==
    /\ lastCall.op = "load" /\ lastCall.ok
    /\ registry # <<>>
    /\ \A i \in DOMAIN configs :
          configs[i].colors["text"] # configs[i].colors["background"]

\* p occurs in s as a run of consecutive characters.
IsSubstring(p, s) ==
    \E i \in 0..(Len(s) - Len(p)) : SubSeq(s, i + 1, i + Len(p)) = p

\* The characters that repr writes as an escape whatever the quote.
NeedsEscape(s) == \E i \in DOMAIN s : s[i] \in {92, 10, 13, 9}

\* Reading a Python string literal back: the text between the quotes,
\* each backslash escape replaced by the character it stands for.
UnescapeChar(c) ==
    IF c = 110 THEN 10 ELSE IF c = 114 THEN 13 ELSE IF c = 116 THEN 9 ELSE c

RECURSIVE Unescape(_)
Unescape(s) ==
    IF s = <<>> THEN <<>>
    ELSE IF s[1] = 92 /\ Len(s) >= 2
         THEN <<UnescapeChar(s[2])>> \o Unescape(Tail(Tail(s)))
         ELSE <<s[1]>> \o Unescape(Tail(s))

\* lit is a quoted literal, with no bare quote inside, that reads back
\* as s.
IsLiteralOf(lit, s) ==
    /\ Len(lit) >= 2
    /\ lit[1] \in {39, 34}
    /\ lit[Len(lit)] = lit[1]
    /\ Unescape(SubSeq(lit, 2, Len(lit) - 1)) = s
    /\ \A i \in 2..(Len(lit) - 1) :
          lit[i] = lit[1] => lit[i - 1] = 92

\* What get of a registered name returns.
C3_GetReturns ==
    /\ lastCall.res.ok
    /\ lastCall.res.theme.name = lastCall.name
    /\ lastCall.res.theme \in Range(registry)

\* A get step changes neither the registry, nor any object, nor rcParams.
C3_GetNoSideEffect ==
    lastCall'.op = "get" =>
        /\ registry' = registry
        /\ heap' = heap
        /\ rcParams' = rcParams

\* The result of get, with the literal name required in the message.
C3_AsStatedResult ==
    lastCall.op = "get" =>
        IF lastCall.name \in RegistryNames
        THEN C3_GetReturns
        ELSE /\ ~lastCall.res.ok
             /\ lastCall.res.error = "KeyError"
             /\ IsSubstring(NameChars[lastCall.name],
                            lastCall.res.msg.requested)
             /\ lastCall.res.msg.mid = ". Available: "
             /\ IsSortedListOf(lastCall.res.msg.available, Available)

C3_GetResult ==
    lastCall.op = "get" =>
        IF lastCall.name \in RegistryNames
        THEN C3_GetReturns
        ELSE LET chars == NameChars[lastCall.name]
             IN  /\ ~lastCall.res.ok
                 /\ lastCall.res.error = "KeyError"
                 /\ IsLiteralOf(lastCall.res.msg.requested, chars)
                 /\ (~NeedsEscape(chars)
                       /\ ~({39, 34} \subseteq Range(chars)))
                      => IsSubstring(chars, lastCall.res.msg.requested)
                 /\ lastCall.res.msg.mid = ". Available: "
                 /\ IsSortedListOf(lastCall.res.msg.available, Available)

C6_ThemesNeverMutated ==
    pc = "ready" =>
        /\ Len(registry) = Len(configs)
        /\ \A i \in DOMAIN registry :
              /\ registry[i].name = configs[i].name
              /\ heap[registry[i].colors] = configs[i].colors
              /\ heap[registry[i].rc] = BuildRcMap(configs[i].colors)

\* A use step of a registered name.
C2_UseStep ==
    (lastCall'.op = "use" /\ Registered(lastCall'.name)) =>
        LET t == ThemeOf(lastCall'.name)
            palette == heap'[t.colors]
        IN  /\ lastCall'.res.ok
            /\ lastCall'.res.theme = t
            /\ Reflects(rcParams', heap'[t.rc])
            /\ rcParams'["figure.facecolor"] = palette["background"]
            /\ rcParams'["text.color"] = palette["text"]
            /\ rcParams'["axes.prop_cycle"] =
                  [color |-> <<palette["a"], palette["b"], palette["c"],
                               palette["d"], palette["e"]>>]
            /\ \A k \in DOMAIN rcParams \ DOMAIN heap'[t.rc] :
                  rcParams'[k] = rcParams[k]
            /\ DOMAIN rcParams' = DOMAIN rcParams

\* C2: use(name) of a registered name returns the registry's Theme and
\* leaves the global configuration equal to the prior one overridden by
\* the theme's style-configuration: every key of it holds the theme's
\* value (the background and text properties the palette's background and
\* text, the colour cycle the palette's a, b, c, d, e in that order) and
\* every other key keeps its prior value.
C2_UseAppliesTheme == [][C2_UseStep]_vars

\* The identities of the objects the registry's Themes hold.
RegistryObjects ==
    {registry[i].rc : i \in DOMAIN registry}
        \cup {registry[i].colors : i \in DOMAIN registry}

\* No result of to_rcparams is an object of the registry or an earlier
\* result, and the one just returned equals the stored RcParams.
C5_FreshEqualCopy ==
    /\ \A i \in DOMAIN copies :
          /\ copies[i] \notin RegistryObjects
          /\ \A j \in DOMAIN copies : i # j => copies[i] # copies[j]
    /\ (lastCall.op = "to_rcparams" /\ lastCall.res.ok) =>
          /\ copies # <<>>
          /\ lastCall.id = copies[Len(copies)]
          /\ heap[lastCall.id] = heap[lastCall.res.theme.rc]

\* A write to a copy changes that copy only.
C5_WriteStaysInCopy ==
    lastCall'.op = "copy.write" =>
        /\ \A id \in RegistryObjects : heap'[id] = heap[id]
        /\ \A j \in DOMAIN copies :
              j # lastCall'.i => heap'[copies[j]] = heap[copies[j]]
        /\ rcParams' = rcParams
        /\ registry' = registry

C1_AppliedOnEntry ==
    (lastCall.op = "context.enter" /\ lastCall.res.ok) =>
        /\ ctxStack # <<>>
        /\ Reflects(rcParams, heap[lastCall.res.theme.rc])

\* An exit leaves the configuration that held at the entry of its scope.
C1_RestoredOnExit ==
    lastCall'.op = "context.exit" =>
        /\ ctxStack # <<>>
        /\ rcParams' = ctxStack[Len(ctxStack)].entryG

\* C1: inside the scope of context(name) each key of the theme's
\* style-configuration holds the theme's value in the global
\* configuration, and once the scope exits the global configuration is
\* again the one that held before the scope was entered, whether the body
\* returned or raised and whatever it wrote to the global configuration.
C1_ContextRestores == [] C1_AppliedOnEntry /\ [][C1_RestoredOnExit]_vars

\* A scope was just left by an exception, its body having written a key
\* the theme does not set (and a theme having been applied in it).
C1_Witness ==
    /\ lastCall.op = "context.exit"
    /\ lastCall.raised
    /\ lastCall.atExit["lines.color"] # rcParams["lines.color"]
    /\ lastCall.atExit["text.color"] # rcParams["text.color"]

\* Entries push, exits pop, nothing else touches the stack.
C9_NestedStep ==
    /\ (lastCall'.op = "context.enter" /\ lastCall'.res.ok) =>
          /\ Len(ctxStack') = Len(ctxStack) + 1
          /\ SubSeq(ctxStack', 1, Len(ctxStack)) = ctxStack
          /\ ctxStack'[Len(ctxStack')].entryG = rcParams
          /\ Reflects(rcParams', heap[ThemeOf(lastCall'.name).rc])
    /\ lastCall'.op = "context.exit" =>
          /\ ctxStack # <<>>
          /\ ctxStack' = SubSeq(ctxStack, 1, Len(ctxStack) - 1)
          /\ rcParams' = ctxStack[Len(ctxStack)].entryG
    /\ lastCall'.op \notin {"context.enter", "context.exit"} =>
          ctxStack' = ctxStack

\* C9: scopes nest as a stack.  Entering context(n2) inside context(n1)
\* makes the global configuration reflect n2 and leaves the outer scope's
\* saved state alone; leaving the inner scope, normally or by an
\* exception, restores exactly the configuration that held just before it
\* was entered; leaving the outer one then restores the configuration
\* that held before the outer one was entered.
C9_ScopesNest == [][C9_NestedStep]_vars

\* An inner scope was just left: what was restored is neither what the
\* inner body left nor what held before the outer scope was entered.
C9_Witness ==
    /\ lastCall.op = "context.exit"
    /\ lastCall.depth = 2
    /\ Len(ctxStack) = 1
    /\ rcParams # ctxStack[1].entryG
    /\ rcParams # lastCall.atExit

\* The generator's progress, and the item just yielded.
C4_AtYield ==
    /\ gen.status \in {"created", "suspended", "done"} =>
          /\ gen.k <= Len(IterNames(gen))
          /\ gen.applied = SubSeq(IterNames(gen), 1, gen.k)
    /\ gen.status = "done" => gen.k = Len(IterNames(gen))
    /\ (lastCall.op = "next" /\ lastCall.kind = "yield") =>
          LET k == lastCall.k
              seq == IF gen.given THEN gen.names
                     ELSE [i \in DOMAIN registry |-> registry[i].name]
          IN  /\ gen.k = k
              /\ k \in DOMAIN seq
              /\ lastCall.pair[1] = seq[k]
              /\ lastCall.pair[2] \in Range(registry)
              /\ lastCall.pair[2].name = seq[k]
              /\ Reflects(rcParams, heap[lastCall.pair[2].rc])

\* The steps of a generator: creation, a yield, the end.
C4_IterStep ==
    /\ lastCall'.op = "iter_use" =>
          /\ rcParams' = rcParams
          /\ heap' = heap
          /\ registry' = registry
          /\ gen'.k = 0 /\ gen'.applied = <<>>
    /\ (lastCall'.op = "next" /\ lastCall'.kind = "yield") =>
          /\ gen'.k = gen.k + 1
          /\ rcParams' = RcUpdate(rcParams, heap[lastCall'.pair[2].rc])
    /\ (lastCall'.op = "next" /\ lastCall'.kind = "stop") =>
          /\ rcParams' = rcParams
          /\ gen'.k = gen.k

\* C4: iter_use is lazy and ordered.  Creating the iterator changes
\* nothing; the k-th item is (names[k], the Theme of names[k]), and when
\* it is yielded exactly names[1..k] have been applied, in that order, so
\* that the global configuration reflects names[k]; a step applies one
\* theme and no later one; the end of the iteration changes nothing.
\* With names omitted the sequence is that of available().
C4_IterUseLazyOrdered == [] C4_AtYield /\ [][C4_IterStep]_vars

\* The second item of an iteration over two different names was just
\* yielded.
C4_Witness ==
    /\ lastCall.op = "next" /\ lastCall.kind = "yield"
    /\ lastCall.k = 2
    /\ gen.applied[1] # gen.applied[2]
    /\ rcParams["text.color"] = heap[ThemeOf(gen.applied[2]).rc]["text.color"]
    /\ rcParams["text.color"] # heap[ThemeOf(gen.applied[1]).rc]["text.color"]

\* The steps that look up a name that is no theme.
C10_FailStep ==
    /\ (lastCall'.op \in {"use", "to_rcparams", "context.enter"}
          /\ lastCall'.name \notin RegistryNames) =>
          /\ ~lastCall'.res.ok
          /\ lastCall'.res.error = "KeyError"
          /\ rcParams' = rcParams
          /\ ctxStack' = ctxStack
          /\ heap' = heap
          /\ copies' = copies
    /\ (lastCall'.op = "next"
          /\ gen.status \in {"created", "suspended"}
          /\ gen.k < Len(IterNames(gen))
          /\ IterNames(gen)[gen.k + 1] \notin RegistryNames) =>
          /\ lastCall'.kind = "raise"
          /\ lastCall'.res.error = "KeyError"
          /\ lastCall'.k = gen.k + 1
          /\ rcParams' = rcParams
          /\ gen'.status = "raised"
          /\ gen'.applied = SubSeq(IterNames(gen), 1, gen.k)
    /\ (lastCall'.op = "next" /\ gen.status = "raised") =>
          /\ lastCall'.kind = "stop"
          /\ rcParams' = rcParams
          /\ gen' = gen

\* C10: a failed lookup never touches the global configuration.  For a
\* name that is no theme, use, to_rcparams and the entry of context raise
\* KeyError and leave the global configuration as it was (context before
\* any override is installed and before its body runs); iter_use raises
\* when it reaches such a name at position k, with the themes before k
\* applied and none after, and the generator is then finished.
C10_FailedLookupNoEffect == [][C10_FailStep]_vars

\* iter_use just raised at its second name, the first having been
\* applied.
C10_Witness ==
    /\ lastCall.op = "next" /\ lastCall.kind = "raise"
    /\ lastCall.k = 2
    /\ gen.applied # <<>>
    /\ Reflects(rcParams, heap[ThemeOf(gen.applied[1]).rc])

====
